---- MODULE Spec2Model ----
(***************************************************************************)
(* Runner training progression: the model evaluation engine                *)
(* (ModelParameters, ExponentialModel, LinearModel, ModelFactory).         *)
(*                                                                         *)
(* Python floats are IEEE-754 binary floating point.  The model keeps the  *)
(* format's structure (round to nearest even, gradual underflow, overflow  *)
(* to infinity, NaN, unordered comparisons) at a reduced width: Prec       *)
(* significand bits (53 in binary64), a smallest positive value of         *)
(* 2^-FracBits (2^-1074) and a largest binary exponent Emax (1023).        *)
(* A finite float is the integer number of quanta of 2^-FracBits it holds. *)
(***************************************************************************)
EXTENDS Integers, Sequences, FiniteSets, TLC

\* ------------------------------------------------------------ float format

Prec == 6
FracBits == 10
Emax == 5

Unit == 2^FracBits
MaxFin == (2^Prec - 1) * 2^(Emax + 1 - Prec + FracBits)
IntCap == 2^30

PosInf == IntCap
NegInf == 0 - IntCap
NaN == IntCap + 1

IsNaN(x) == x = NaN
IsInf(x) == x = PosInf \/ x = NegInf
IsFinite(x) == ~IsNaN(x) /\ ~IsInf(x)

Abs(n) == IF n < 0 THEN 0 - n ELSE n
Sgn(n) == IF n < 0 THEN 0 - 1 ELSE IF n > 0 THEN 1 ELSE 0

\* Smallest k >= 0 with f < 2^(Prec + k): the binade of a magnitude of f quanta.
RECURSIVE Shift(_, _)
Shift(f, k) == IF f < 2^(Prec + k) THEN k ELSE Shift(f, k + 1)

\* Spacing of the floats around a magnitude of n quanta (unit in the last place).
Ulp(n) == 2^Shift(Abs(n), 0)

\* A finite value is a float when its significand fits in Prec bits.
Representable(n) == Abs(n) <= MaxFin /\ Abs(n) % Ulp(n) = 0

\* p/q quanta (p >= 0, q > 0) rounded to the nearest float, ties to even.
RoundMag(p, q) ==
    LET k == Shift(p \div q, 0)
        d == q * 2^k
        m0 == p \div d
        r == p % d
        m == IF 2 * r > d \/ (2 * r = d /\ m0 % 2 = 1) THEN m0 + 1 ELSE m0
        n == m * 2^k
    IN  IF n > MaxFin THEN PosInf ELSE n

FNeg(x) == IF IsNaN(x) THEN NaN ELSE 0 - x

RoundRat(p, q) == IF p >= 0 THEN RoundMag(p, q) ELSE FNeg(RoundMag(0 - p, q))

\* The float nearest to the decimal literal num/den (den > 0), as the parser rounds it.
Lit(num, den) == RoundRat(num * Unit, den)

\* ------------------------------------------------------------ comparisons
\* Every ordered comparison with a NaN operand is False; the infinities order
\* as the largest and smallest values.

FLt(x, y) == ~IsNaN(x) /\ ~IsNaN(y) /\ x < y
FLe(x, y) == ~IsNaN(x) /\ ~IsNaN(y) /\ x <= y
FGt(x, y) == FLt(y, x)
FGe(x, y) == FLe(y, x)
FEq(x, y) == ~IsNaN(x) /\ ~IsNaN(y) /\ x = y

\* ------------------------------------------------------------ arithmetic

FSub(x, y) ==
    IF IsNaN(x) \/ IsNaN(y) THEN NaN
    ELSE IF IsInf(x) THEN (IF x = y THEN NaN ELSE x)
    ELSE IF IsInf(y) THEN FNeg(y)
    ELSE RoundRat(x - y, 1)

FAdd(x, y) == FSub(x, FNeg(y))

FMul(x, y) ==
    IF IsNaN(x) \/ IsNaN(y) THEN NaN
    ELSE IF x = 0 \/ y = 0 THEN (IF IsInf(x) \/ IsInf(y) THEN NaN ELSE 0)
    ELSE IF IsInf(x) \/ IsInf(y) \/ Abs(x) > IntCap \div Abs(y)
         THEN (IF Sgn(x) = Sgn(y) THEN PosInf ELSE NegInf)
    ELSE RoundRat(Sgn(x) * Sgn(y) * (Abs(x) * Abs(y)), Unit)

\* x / y for y # 0 (Python raises ZeroDivisionError before dividing by zero).
FDiv(x, y) ==
    IF IsNaN(x) \/ IsNaN(y) THEN NaN
    ELSE IF IsInf(x) THEN (IF IsInf(y) THEN NaN
                           ELSE IF Sgn(x) = Sgn(y) THEN PosInf ELSE NegInf)
    ELSE IF IsInf(y) THEN 0
    ELSE RoundRat(Sgn(y) * x * Unit, Abs(y))

\* ------------------------------------------------------------ pow and log
\* n = OddPart(n) * 2^TwoExp(n) for n > 0.
RECURSIVE TwoExp(_)
TwoExp(n) == IF n % 2 = 1 THEN 0 ELSE 1 + TwoExp(n \div 2)
OddPart(n) == n \div 2^TwoExp(n)

\* Exact natural numbers of any size, least significant limb first.
LimbBits == 14
LimbBase == 2^LimbBits

RECURSIVE BigMul(_, _, _)
BigMul(N, c, carry) ==
    IF N = <<>> THEN (IF carry = 0 THEN <<>> ELSE <<carry>>)
    ELSE LET v == Head(N) * c + carry
         IN  <<v % LimbBase>> \o BigMul(Tail(N), c, v \div LimbBase)

RECURSIVE BigPow(_, _)
BigPow(c, k) == IF k = 0 THEN <<1>> ELSE BigMul(BigPow(c, k - 1), c, 0)

\* a^k for a float 0 < a < 1 and an integer k >= 1, correctly rounded:
\* a = m * 2^e quanta, so a^k = m^k * 2^-t quanta with t = k*(FracBits - e) - FracBits.
\* The two leading limbs of m^k and a sticky bit for the rest decide the rounding.
PowInt(a, k) ==
    LET m == OddPart(a)
        N == BigPow(m, k)
        L == Len(N)
        top == IF L = 1 THEN N[1] ELSE N[L] * LimbBase + N[L - 1]
        j == IF L = 1 THEN 0 ELSE LimbBits * (L - 2)
        sticky == IF \E i \in 1..(L - 2) : N[i] # 0 THEN 1 ELSE 0
        t == k * (FracBits - TwoExp(a)) - FracBits
        e == t + 1 - j
    IN  IF e >= 31 THEN 0
        ELSE IF e <= 0 THEN RoundMag((2 * top + sticky) * 2^(0 - e), 1)
        ELSE RoundMag(2 * top + sticky, 2^e)

IsWhole(x) == IsFinite(x) /\ x % Unit = 0

\* a ** x as the engine uses it: 0 < a < 1 (validated) and x = week / b, which
\* is NaN, +inf or >= 0.  The quotients the model draws are whole numbers;
\* no value is defined for any other exponent.
FPow(a, x) ==
    IF IsNaN(x) THEN NaN
    ELSE IF x = PosInf THEN 0
    ELSE IF x = 0 THEN Unit
    ELSE IF IsWhole(x) /\ x > 0 THEN PowInt(a, x \div Unit)
    ELSE CHOOSE r \in {} : TRUE

\* Number of bits of n > 0.
RECURSIVE BitLen(_)
BitLen(n) == IF n = 0 THEN 0 ELSE 1 + BitLen(n \div 2)

\* floor(a * b / c) without leaving the machine integers.
MulDiv(a, b, c) == (a \div c) * b + ((a % c) * b) \div c

\* ln 2 in units of 2^-LogBits.
LogBits == 24
Ln2Fixed == 11629080

\* sum over i >= i0 of z^(2i+1) / (2i+1), z = zn/zd, where t holds z^(2i0+1).
RECURSIVE AtanhSeries(_, _, _, _)
AtanhSeries(t, i, zn, zd) ==
    IF t = 0 THEN 0
    ELSE t \div (2 * i + 1) + AtanhSeries(MulDiv(t, zn * zn, zd * zd), i + 1, zn, zd)

\* math.log(x) for a float 0 < x <= 1, rounded to the nearest float.
\* x = f * 2^c with 1/2 <= f < 1, ln f = -2 atanh((1 - f) / (1 + f)).
LogMag(n) ==
    LET m == OddPart(n)
        s == BitLen(m)
        c == s + TwoExp(n) - FracBits
        zn == 2^s - m
        zd == 2^s + m
        G == IF c < 0 THEN LogBits ELSE 30 - BitLen(zn)
        L == IF m = 1 THEN (FracBits - TwoExp(n)) * Ln2Fixed
             ELSE (IF c < 0 THEN (0 - c) * Ln2Fixed ELSE 0)
                  + 2 * AtanhSeries((zn * 2^G) \div zd, 0, zn, zd)
    IN  RoundMag(L, 2^((IF m = 1 THEN LogBits ELSE G) - FracBits))

\* math.log raises ValueError for x <= 0; the engine only takes logarithms of
\* values in (0, 1] (or NaN), and no value is defined above 1.
FLog(x) ==
    IF IsNaN(x) THEN NaN
    ELSE IF x = Unit THEN 0
    ELSE IF x > 0 /\ x < Unit THEN 0 - LogMag(x)
    ELSE CHOOSE r \in {} : TRUE

\* Python's two-argument min and max keep the first argument unless the
\* second compares strictly below (above) it.
PyMin(x, y) == IF FLt(y, x) THEN y ELSE x
PyMax(x, y) == IF FGt(y, x) THEN y ELSE x

\* ------------------------------------------------------------ outcomes
\* What a call gives back: a returned value or a raised exception.

None == IntCap + 2

Ret(v) == [kind |-> "return", val |-> v]
Raise(exc, text, got) == [kind |-> "raise", exc |-> exc, text |-> text, got |-> got]

Returned(o) == o.kind = "return"
Raised(o) == o.kind = "raise"

\* ------------------------------------------------------------ strings
UpperLetters ==
    << "A", "B", "C", "D", "E", "F", "G", "H", "I", "J", "K", "L", "M",
       "N", "O", "P", "Q", "R", "S", "T", "U", "V", "W", "X", "Y", "Z" >>
LowerLetters ==
    << "a", "b", "c", "d", "e", "f", "g", "h", "i", "j", "k", "l", "m",
       "n", "o", "p", "q", "r", "s", "t", "u", "v", "w", "x", "y", "z" >>

LowerChar(c) ==
    IF \E i \in DOMAIN UpperLetters : UpperLetters[i] = c
    THEN LowerLetters[CHOOSE i \in DOMAIN UpperLetters : UpperLetters[i] = c]
    ELSE c

\* Faulty variant: the tag is looked up as supplied.
Lower_AsSupplied(str) == str

\* str.lower() on a string held as its sequence of characters.
Lower(str) == [i \in DOMAIN str |-> LowerChar(str[i])]

\* ------------------------------------------------------------ ModelParameters

Params(T, S, a, b) ==
    [target_mileage |-> T, starting_mileage |-> S, a_parameter |-> a, b_parameter |-> b]

\* Faulty variant: a starting mileage of zero is rejected too.
ModelParameters_RejectZeroStart(T, S, a, b) ==
    IF FLe(T, 0) THEN Raise("ValueError", "Target mileage must be positive", None)
    ELSE IF FLe(S, 0) THEN Raise("ValueError", "Starting mileage must be non-negative", None)
    ELSE Ret(Params(T, S, a, b))

\* ModelParameters(...): the dataclass, or the error __post_init__ raises.
ModelParameters(T, S, a, b) ==
    IF FLe(T, 0) THEN Raise("ValueError", "Target mileage must be positive", None)
    ELSE IF FLt(S, 0) THEN Raise("ValueError", "Starting mileage must be non-negative", None)
    ELSE Ret(Params(T, S, a, b))

\* ------------------------------------------------------------ ExponentialModel

ExponentialKey == << "e", "x", "p", "o", "n", "e", "n", "t", "i", "a", "l" >>
LinearKey == << "l", "i", "n", "e", "a", "r" >>

Exponential_validate_parameters(p) ==
    IF ~(FLt(0, p.a_parameter) /\ FLt(p.a_parameter, Unit))
    THEN Raise("ValueError", "Parameter 'a' must be in (0, 1)", p.a_parameter)
    ELSE IF FLe(p.b_parameter, 0)
    THEN Raise("ValueError", "Parameter 'b' must be positive", p.b_parameter)
    ELSE IF FGe(p.starting_mileage, p.target_mileage)
    THEN Raise("ValueError",
               "Starting mileage must be less than target mileage for exponential model", None)
    ELSE Ret(None)

\* Faulty variant: the starting mileage is left out of the decaying term.
Exponential_calculate_mileage_NoStart(p, week) ==
    IF FLt(week, 0) THEN Raise("ValueError", "Week must be non-negative", week)
    ELSE LET T == p.target_mileage
             decay_factor == FPow(p.a_parameter, FDiv(week, p.b_parameter))
         IN  Ret(FSub(T, FMul(T, decay_factor)))

\* Faulty variant: the curve runs from the target down to the starting mileage.
Exponential_calculate_mileage_Swapped(p, week) ==
    IF FLt(week, 0) THEN Raise("ValueError", "Week must be non-negative", week)
    ELSE LET T == p.target_mileage
             S == p.starting_mileage
             decay_factor == FPow(p.a_parameter, FDiv(week, p.b_parameter))
         IN  Ret(FAdd(S, FMul(FSub(T, S), decay_factor)))

\* Faulty variant: the decaying term is added to the target.
Exponential_calculate_mileage_Overshoot(p, week) ==
    IF FLt(week, 0) THEN Raise("ValueError", "Week must be non-negative", week)
    ELSE LET T == p.target_mileage
             S == p.starting_mileage
             decay_factor == FPow(p.a_parameter, FDiv(week, p.b_parameter))
         IN  Ret(FAdd(T, FMul(FSub(T, S), decay_factor)))

Exponential_calculate_mileage(p, week) ==
    IF FLt(week, 0) THEN Raise("ValueError", "Week must be non-negative", week)
    ELSE LET T == p.target_mileage
             S == p.starting_mileage
             decay_factor == FPow(p.a_parameter, FDiv(week, p.b_parameter))
         IN  Ret(FSub(T, FMul(FSub(T, S), decay_factor)))

\* Faulty variant: the remaining gap is taken relative to the target.
Exponential_calculate_week_RatioToTarget(p, mileage) ==
    LET S == p.starting_mileage
        T == p.target_mileage
        ratio == FDiv(FSub(T, mileage), T)
        week == FDiv(FMul(p.b_parameter, FLog(ratio)), FLog(p.a_parameter))
    IN  IF ~(FLe(S, mileage) /\ FLe(mileage, T)) THEN Ret(None)
        ELSE IF FEq(mileage, T) THEN Ret(PosInf)
        ELSE IF FLe(ratio, 0) THEN Ret(None)
        ELSE Ret(PyMax(0, week))

\* Faulty variant: the starting mileage itself is out of range.
Exponential_calculate_week_ExcludesStart(p, mileage) ==
    LET S == p.starting_mileage
        T == p.target_mileage
        ratio == FDiv(FSub(T, mileage), FSub(T, S))
        week == FDiv(FMul(p.b_parameter, FLog(ratio)), FLog(p.a_parameter))
    IN  IF ~(FLt(S, mileage) /\ FLe(mileage, T)) THEN Ret(None)
        ELSE IF FEq(mileage, T) THEN Ret(PosInf)
        ELSE IF FLe(ratio, 0) THEN Ret(None)
        ELSE Ret(PyMax(0, week))

Exponential_calculate_week(p, mileage) ==
    LET S == p.starting_mileage
        T == p.target_mileage
        ratio == FDiv(FSub(T, mileage), FSub(T, S))
        week == FDiv(FMul(p.b_parameter, FLog(ratio)), FLog(p.a_parameter))
    IN  IF ~(FLe(S, mileage) /\ FLe(mileage, T)) THEN Ret(None)
        ELSE IF FEq(mileage, T) THEN Ret(PosInf)
        ELSE IF FLe(ratio, 0) THEN Ret(None)
        ELSE Ret(PyMax(0, week))

\* Faulty variant: the coefficient keeps the sign of T - S.
Exponential_calculate_rate_of_change_NoMinus(p, week) ==
    IF FLt(week, 0) THEN Raise("ValueError", "Week must be non-negative", week)
    ELSE LET coefficient == FDiv(FSub(p.target_mileage, p.starting_mileage),
                                  p.b_parameter)
             exponential == FPow(p.a_parameter, FDiv(week, p.b_parameter))
             log_a == FLog(p.a_parameter)
         IN  Ret(FMul(FMul(coefficient, exponential), log_a))

Exponential_calculate_rate_of_change(p, week) ==
    IF FLt(week, 0) THEN Raise("ValueError", "Week must be non-negative", week)
    ELSE LET coefficient == FDiv(FNeg(FSub(p.target_mileage, p.starting_mileage)),
                                  p.b_parameter)
             exponential == FPow(p.a_parameter, FDiv(week, p.b_parameter))
             log_a == FLog(p.a_parameter)
         IN  Ret(FMul(FMul(coefficient, exponential), log_a))

\* ------------------------------------------------------------ LinearModel

Linear_validate_parameters(p) ==
    IF FLe(p.a_parameter, 0)
    THEN Raise("ValueError", "Parameter 'a' must be positive for linear model", p.a_parameter)
    ELSE IF FLe(p.b_parameter, 0)
    THEN Raise("ValueError", "Parameter 'b' must be positive", p.b_parameter)
    ELSE IF FGt(p.starting_mileage, p.target_mileage)
    THEN Raise("ValueError", "Starting mileage cannot exceed target mileage", None)
    ELSE Ret(None)

ZeroDivision == Raise("ZeroDivisionError", "float division by zero", None)

\* Faulty variant: the distance to the target is multiplied by the rate.
Linear_get_plateau_week_TimesRate(p) ==
    LET S == p.starting_mileage
        T == p.target_mileage
        rate == FDiv(p.a_parameter, p.b_parameter)
    IN  IF FEq(S, T) THEN Ret(0)
        ELSE IF rate = 0 THEN ZeroDivision
        ELSE Ret(FMul(FSub(T, S), rate))

Linear_get_plateau_week(p) ==
    LET S == p.starting_mileage
        T == p.target_mileage
        rate == FDiv(p.a_parameter, p.b_parameter)
    IN  IF FEq(S, T) THEN Ret(0)
        ELSE IF rate = 0 THEN ZeroDivision
        ELSE Ret(FDiv(FSub(T, S), rate))

\* Faulty variant: the line is not capped at the target.
Linear_calculate_mileage_NoCap(p, week) ==
    IF FLt(week, 0) THEN Raise("ValueError", "Week must be non-negative", week)
    ELSE LET rate == FDiv(p.a_parameter, p.b_parameter)
             linear_value == FAdd(p.starting_mileage, FMul(rate, week))
         IN  Ret(linear_value)

Linear_calculate_mileage(p, week) ==
    IF FLt(week, 0) THEN Raise("ValueError", "Week must be non-negative", week)
    ELSE LET rate == FDiv(p.a_parameter, p.b_parameter)
             linear_value == FAdd(p.starting_mileage, FMul(rate, week))
         IN  Ret(PyMin(linear_value, p.target_mileage))

Linear_calculate_week(p, mileage) ==
    LET S == p.starting_mileage
        T == p.target_mileage
        rate == FDiv(p.a_parameter, p.b_parameter)
        week == FDiv(FSub(mileage, S), rate)
        plateau_week == Linear_get_plateau_week(p)
    IN  IF ~(FLe(S, mileage) /\ FLe(mileage, T)) THEN Ret(None)
        ELSE IF FEq(mileage, S) THEN Ret(0)
        ELSE IF rate = 0 THEN ZeroDivision
        ELSE IF Raised(plateau_week) THEN plateau_week
        ELSE IF FLe(week, plateau_week.val) THEN Ret(week)
        ELSE IF FEq(mileage, T) THEN plateau_week ELSE Ret(None)

Linear_calculate_rate_of_change(p, week) ==
    IF FLt(week, 0) THEN Raise("ValueError", "Week must be non-negative", week)
    ELSE LET plateau_week == Linear_get_plateau_week(p)
             rate == FDiv(p.a_parameter, p.b_parameter)
         IN  IF Raised(plateau_week) THEN plateau_week
             ELSE Ret(IF FLt(week, plateau_week.val) THEN rate ELSE 0)

\* ------------------------------------------------------------ ModelFactory

\* ModelFactory._models: tag -> class, in insertion order.
ModelKeys == << ExponentialKey, LinearKey >>
ModelClass(key) == IF key = ExponentialKey THEN "ExponentialModel" ELSE "LinearModel"

InRegistry(key) == \E i \in DOMAIN ModelKeys : ModelKeys[i] = key

validate_parameters(class, p) ==
    IF class = "ExponentialModel" THEN Exponential_validate_parameters(p)
    ELSE Linear_validate_parameters(p)

\* model_class(params): BaseTrainingModel.__init__ stores the parameters and
\* validates them; the object exists only if validation raises nothing.
Construct(class, p) ==
    LET v == validate_parameters(class, p)
    IN  IF Raised(v) THEN v ELSE Ret([class |-> class, params |-> p])

\* Faulty variant: the ParameterSet is built before the tag is looked up.
ModelFactory_create_ParametersFirst(model_type, T, S, a, b) ==
    LET model_type_lower == Lower(model_type)
        params == ModelParameters(T, S, a, b)
    IN  IF Raised(params) THEN params
        ELSE IF ~InRegistry(model_type_lower)
        THEN Raise("ValueError", "Unknown model type",
                   [tag |-> model_type, available |-> ModelKeys])
        ELSE Construct(ModelClass(model_type_lower), params.val)

ModelFactory_create(model_type, T, S, a, b) ==
    LET model_type_lower == Lower(model_type)
        params == ModelParameters(T, S, a, b)
    IN  IF ~InRegistry(model_type_lower)
        THEN Raise("ValueError", "Unknown model type",
                   [tag |-> model_type, available |-> ModelKeys])
        ELSE IF Raised(params) THEN params
        ELSE Construct(ModelClass(model_type_lower), params.val)

\* Faulty variant: the tags come back in reverse order.
ModelFactory_available_models_Reversed == << LinearKey, ExponentialKey >>

\* list(cls._models.keys())
ModelFactory_available_models == ModelKeys

\* ------------------------------------------------------------ ParameterValidator
\* utils/validators.py: the tag is compared as supplied, with ==.

\* Faulty variant: an exponential range with starting == target is accepted.
validate_mileage_range_AllowsEqual(starting, target, tag) ==
    IF FLe(target, 0)
    THEN Raise("ValueError", "Target mileage must be positive", target)
    ELSE IF FLt(starting, 0)
    THEN Raise("ValueError", "Starting mileage must be non-negative", starting)
    ELSE IF tag = ExponentialKey /\ FGt(starting, target)
    THEN Raise("ValueError", "For exponential model, starting must be less than target",
               << starting, target >>)
    ELSE IF tag = LinearKey /\ FGt(starting, target)
    THEN Raise("ValueError", "For linear model, starting cannot exceed target",
               << starting, target >>)
    ELSE Ret(None)

validate_mileage_range(starting, target, tag) ==
    IF FLe(target, 0)
    THEN Raise("ValueError", "Target mileage must be positive", target)
    ELSE IF FLt(starting, 0)
    THEN Raise("ValueError", "Starting mileage must be non-negative", starting)
    ELSE IF tag = ExponentialKey /\ FGe(starting, target)
    THEN Raise("ValueError", "For exponential model, starting must be less than target",
               << starting, target >>)
    ELSE IF tag = LinearKey /\ FGt(starting, target)
    THEN Raise("ValueError", "For linear model, starting cannot exceed target",
               << starting, target >>)
    ELSE Ret(None)

validate_model_parameters(a_param, b_param, tag) ==
    IF FLe(b_param, 0)
    THEN Raise("ValueError", "Parameter b must be positive", b_param)
    ELSE IF tag = ExponentialKey /\ ~(FLt(0, a_param) /\ FLt(a_param, Unit))
    THEN Raise("ValueError", "For exponential model, parameter a must be in (0, 1)", a_param)
    ELSE IF tag = LinearKey /\ FLe(a_param, 0)
    THEN Raise("ValueError", "For linear model, parameter a must be positive", a_param)
    ELSE Ret(None)

\* ------------------------------------------------------------ method dispatch

model_type(m) == IF m.class = "ExponentialModel" THEN ExponentialKey ELSE LinearKey

get_equation_latex(m) ==
    IF m.class = "ExponentialModel" THEN "M(n) = T - (T - S) \\cdot a^{n/b}"
    ELSE "M(n) = \\min(S + \\frac{a \\cdot n}{b}, T)"

calculate_mileage(m, week) ==
    IF m.class = "ExponentialModel" THEN Exponential_calculate_mileage(m.params, week)
    ELSE Linear_calculate_mileage(m.params, week)

calculate_week(m, mileage) ==
    IF m.class = "ExponentialModel" THEN Exponential_calculate_week(m.params, mileage)
    ELSE Linear_calculate_week(m.params, mileage)

calculate_rate_of_change(m, week) ==
    IF m.class = "ExponentialModel" THEN Exponential_calculate_rate_of_change(m.params, week)
    ELSE Linear_calculate_rate_of_change(m.params, week)

\* Faulty variant: a rejected week is clamped into the stored parameters.
AfterCall_StoresInput(m, op, arg) ==
    IF op \in {"calculate_mileage", "calculate_rate_of_change"} /\ FLt(arg, 0)
    THEN [m EXCEPT !.params.starting_mileage = 0]
    ELSE m

\* The object a method leaves behind: no method assigns to self.params.
AfterCall(m, op, arg) == m

\* ------------------------------------------------------------ Settings
\* config/settings.py.  The fields are validated in the order the class
\* declares them: target_mileage, starting_mileage, a_parameter, b_parameter,
\* equation_choice; a field validator sees in info.data only the fields
\* validated before its own; every failing field is reported together.

\* The validated fields so far, as info.data: a failed field is left out.
WithField(data, name, ok, v) ==
    IF ok THEN [n \in DOMAIN data \cup { name } |-> IF n = name THEN v ELSE data[n]]
    ELSE data

validate_equation_choice(v) ==
    IF Lower(v) \notin { ExponentialKey, LinearKey }
    THEN Raise("ValueError", "Invalid equation choice", v)
    ELSE Ret(Lower(v))

validate_starting_less_than_target(v, data) ==
    IF "target_mileage" \in DOMAIN data /\ "equation_choice" \in DOMAIN data
    THEN IF data["equation_choice"] = ExponentialKey /\ FGe(v, data["target_mileage"])
         THEN Raise("ValueError",
                    "Starting mileage must be less than target for exponential model", v)
         ELSE Ret(v)
    ELSE Ret(v)

\* Settings(target_mileage=T, starting_mileage=S, a_parameter=a, b_parameter=b,
\* equation_choice=choice): the object, or the validation error naming the
\* fields that failed.
Settings(T, S, a, b, choice) ==
    LET d0 == [n \in {} |-> None]
        okT == FGt(T, 0)
        d1 == WithField(d0, "target_mileage", okT, T)
        okS == FGe(S, 0) /\ Returned(validate_starting_less_than_target(S, d1))
        okA == TRUE
        okB == FGt(b, 0)
        chosen == validate_equation_choice(choice)
        failing == { n \in { "target_mileage", "starting_mileage", "a_parameter",
                             "b_parameter", "equation_choice" } :
                       \/ n = "target_mileage" /\ ~okT
                       \/ n = "starting_mileage" /\ ~okS
                       \/ n = "a_parameter" /\ ~okA
                       \/ n = "b_parameter" /\ ~okB
                       \/ n = "equation_choice" /\ Raised(chosen) }
    IN  IF failing # {} THEN Raise("ValidationError", "validation errors for Settings", failing)
        ELSE Ret([target_mileage |-> T, starting_mileage |-> S, a_parameter |-> a,
                  b_parameter |-> b, equation_choice |-> chosen.val])

\* ------------------------------------------------------------ request handlers
\* api/routes.py: a request that passed its schema, with None for an absent
\* optional field, and the Settings object injected into the handler.

\* x or y: None and 0.0 are falsy, every other float (NaN included) is truthy.
PyOr(x, y) == IF x = None \/ x = 0 THEN y ELSE x

\* p/q (p >= 0, q > 0) rounded to the nearest integer, ties to even.
RoundInt(p, q) ==
    LET f == p \div q
        r == p % q
    IN  IF 2 * r > q \/ (2 * r = q /\ f % 2 = 1) THEN f + 1 ELSE f

\* round(x, ndigits): the decimal nearest to x, converted back to a float;
\* NaN and the infinities come back unchanged.
Round(x, ndigits) ==
    IF ~IsFinite(x) THEN x
    ELSE IF x >= 0 THEN Lit(RoundInt(x * 10^ndigits, Unit), 10^ndigits)
    ELSE FNeg(Lit(RoundInt((0 - x) * 10^ndigits, Unit), 10^ndigits))

get_model_params(request, settings) ==
    [model_type |-> settings.equation_choice,
     target_mileage |-> PyOr(request.target_mileage, settings.target_mileage),
     starting_mileage |-> PyOr(request.starting_mileage, settings.starting_mileage),
     a_parameter |-> PyOr(request.a_parameter, settings.a_parameter),
     b_parameter |-> PyOr(request.b_parameter, settings.b_parameter)]

\* Faulty variant: a ValueError is answered with a payload holding its text.
HandlerError_AnswersPayload(o) ==
    IF o.exc = "ValueError" THEN Ret([detail |-> o.text]) ELSE o

\* except ValueError as e: raise HTTPException(status_code=400, detail=str(e));
\* any other exception leaves the handler as it is.
HandlerError(o) ==
    IF o.exc = "ValueError" THEN Raise("HTTPException", o.text, 400) ELSE o

OutsideRangeMessage == "Mileage is outside valid range"
AsymptoticMessage == "Target mileage is approached asymptotically (never fully reached)"
NoMessage == "None"

WeekCalculationResponse(request, m, params, week_number, is_achievable, message) ==
    [weekly_mileage |-> request.weekly_mileage,
     week_number |-> week_number,
     is_achievable |-> is_achievable,
     message |-> message,
     equation_type |-> model_type(m),
     parameters |-> params]

\* Faulty variant: the 'unbounded' outcome is answered with an error.
calculate_week_handler_UnboundedFails(request, settings) ==
    LET params == get_model_params(request, settings)
        created == ModelFactory_create(params.model_type, params.target_mileage,
                                       params.starting_mileage, params.a_parameter,
                                       params.b_parameter)
        week == calculate_week(created.val, request.weekly_mileage)
    IN  IF Raised(created) THEN HandlerError(created)
        ELSE IF Raised(week) THEN HandlerError(week)
        ELSE IF week.val = None
        THEN Ret(WeekCalculationResponse(request, created.val, params, None, FALSE,
                                         OutsideRangeMessage))
        ELSE IF week.val = PosInf
        THEN Raise("HTTPException", AsymptoticMessage, 400)
        ELSE Ret(WeekCalculationResponse(request, created.val, params,
                                         Round(week.val, 2), TRUE, NoMessage))

\* POST /api/v1/calculate-week
calculate_week_handler(request, settings) ==
    LET params == get_model_params(request, settings)
        created == ModelFactory_create(params.model_type, params.target_mileage,
                                       params.starting_mileage, params.a_parameter,
                                       params.b_parameter)
        week == calculate_week(created.val, request.weekly_mileage)
    IN  IF Raised(created) THEN HandlerError(created)
        ELSE IF Raised(week) THEN HandlerError(week)
        ELSE IF week.val = None
        THEN Ret(WeekCalculationResponse(request, created.val, params, None, FALSE,
                                         OutsideRangeMessage))
        ELSE Ret(WeekCalculationResponse(
                     request, created.val, params,
                     IF week.val # PosInf THEN Round(week.val, 2) ELSE None,
                     TRUE,
                     IF week.val = PosInf THEN AsymptoticMessage ELSE NoMessage))

\* if x: None and 0.0 are falsy, every other float (NaN included) is truthy.
PyTruthy(x) == x # None /\ x # 0

FAbs(x) == IF IsNaN(x) THEN NaN ELSE Abs(x)

\* The first outcome of a sequence of calls that raised: the statements after
\* it are never reached.
FirstRaised(outs) ==
    outs[CHOOSE i \in DOMAIN outs :
            Raised(outs[i]) /\ \A j \in DOMAIN outs : Raised(outs[j]) => i <= j]
AnyRaised(outs) == \E i \in DOMAIN outs : Raised(outs[i])

\* POST /api/v1/calculate-mileage.  100.0 is beyond the largest finite value
\* of the float format at its smallest bounds, where the percentage saturates.
calculate_mileage_handler(request, settings) ==
    LET params == get_model_params(request, settings)
        created == ModelFactory_create(params.model_type, params.target_mileage,
                                       params.starting_mileage, params.a_parameter,
                                       params.b_parameter)
        mileage == calculate_mileage(created.val, request.week_number)
        percentage == FMul(FDiv(mileage.val, params.target_mileage), Lit(100, 1))
    IN  IF Raised(created) THEN HandlerError(created)
        ELSE IF Raised(mileage) THEN HandlerError(mileage)
        ELSE Ret([week_number |-> request.week_number,
                  weekly_mileage |-> Round(mileage.val, 2),
                  percentage_of_target |-> Round(percentage, 1),
                  equation_type |-> model_type(created.val),
                  parameters |-> params])

StableText == "is stable (plateau reached)"
IncreasesText == "increases by abs(rate) miles per week"
DecreasesText == "decreases by abs(rate) miles per week"

\* POST /api/v1/rate-of-change
calculate_rate_handler(request, settings) ==
    LET params == get_model_params(request, settings)
        created == ModelFactory_create(params.model_type, params.target_mileage,
                                       params.starting_mileage, params.a_parameter,
                                       params.b_parameter)
        rate == calculate_rate_of_change(created.val, request.week_number)
        interpretation ==
            IF FLt(FAbs(rate.val), Lit(1, 100)) THEN StableText
            ELSE IF FGt(rate.val, 0) THEN IncreasesText
            ELSE DecreasesText
    IN  IF Raised(created) THEN HandlerError(created)
        ELSE IF Raised(rate) THEN HandlerError(rate)
        ELSE Ret([week_number |-> request.week_number,
                  rate_of_change |-> Round(rate.val, 4),
                  interpretation |-> interpretation,
                  equation_type |-> model_type(created.val),
                  parameters |-> params])

\* weeks = list(range(weeks_to_plot)), as the floats the model methods receive.
WeeksToPlot(n) == [i \in 1..n |-> Lit(i - 1, 1)]

\* model._get_plateau_week() for a linear model, None for any other.
PlateauWeekOf(m) ==
    IF model_type(m) = LinearKey /\ m.class = "LinearModel"
    THEN Linear_get_plateau_week(m.params)
    ELSE Ret(None)

\* Faulty variant: the plateau week is reported for exponential models too.
get_visualisation_data_AlwaysPlateau(request, settings) ==
    LET params == get_model_params(request, settings)
        created == ModelFactory_create(params.model_type, params.target_mileage,
                                       params.starting_mileage, params.a_parameter,
                                       params.b_parameter)
        m == created.val
        weeks == WeeksToPlot(request.weeks_to_plot)
        mileages == [i \in DOMAIN weeks |-> calculate_mileage(m, weeks[i])]
        rates == IF request.include_rate
                 THEN [i \in DOMAIN weeks |-> calculate_rate_of_change(m, weeks[i])]
                 ELSE << >>
        plateau_week == Linear_get_plateau_week(m.params)
        calls == mileages \o rates \o << plateau_week >>
    IN  IF Raised(created) THEN HandlerError(created)
        ELSE IF AnyRaised(calls) THEN HandlerError(FirstRaised(calls))
        ELSE Ret([weeks |-> weeks,
                  mileages |-> [i \in DOMAIN weeks |-> Round(mileages[i].val, 2)],
                  rates |-> [i \in DOMAIN rates |-> Round(rates[i].val, 4)],
                  equation_latex |-> get_equation_latex(m),
                  plateau_week |-> IF PyTruthy(plateau_week.val)
                                   THEN Round(plateau_week.val, 2) ELSE None,
                  equation_type |-> model_type(m),
                  parameters |-> params])

\* POST /api/v1/visualise.  `rates` is the list of rounded rates, empty when
\* the request asks for none (the response field is then None).
get_visualisation_data(request, settings) ==
    LET params == get_model_params(request, settings)
        created == ModelFactory_create(params.model_type, params.target_mileage,
                                       params.starting_mileage, params.a_parameter,
                                       params.b_parameter)
        m == created.val
        weeks == WeeksToPlot(request.weeks_to_plot)
        mileages == [i \in DOMAIN weeks |-> calculate_mileage(m, weeks[i])]
        rates == IF request.include_rate
                 THEN [i \in DOMAIN weeks |-> calculate_rate_of_change(m, weeks[i])]
                 ELSE << >>
        plateau_week == PlateauWeekOf(m)
        calls == mileages \o rates \o << plateau_week >>
    IN  IF Raised(created) THEN HandlerError(created)
        ELSE IF AnyRaised(calls) THEN HandlerError(FirstRaised(calls))
        ELSE Ret([weeks |-> weeks,
                  mileages |-> [i \in DOMAIN weeks |-> Round(mileages[i].val, 2)],
                  rates |-> [i \in DOMAIN rates |-> Round(rates[i].val, 4)],
                  equation_latex |-> get_equation_latex(m),
                  plateau_week |-> IF PyTruthy(plateau_week.val)
                                   THEN Round(plateau_week.val, 2) ELSE None,
                  equation_type |-> model_type(m),
                  parameters |-> params])

\* ------------------------------------------------------------ inputs

MinPos == 1
Neg1 == 0 - Unit

\* Every casing of a word: the letters at the positions in U are upper case.
UpperChar(c) ==
    IF \E i \in DOMAIN LowerLetters : LowerLetters[i] = c
    THEN UpperLetters[CHOOSE i \in DOMAIN LowerLetters : LowerLetters[i] = c]
    ELSE c
Cased(word, U) == [i \in DOMAIN word |-> IF i \in U THEN UpperChar(word[i]) ELSE word[i]]
AllCasings(word) == { Cased(word, U) : U \in SUBSET DOMAIN word }
SomeCasings(word) == { Cased(word, U) : U \in { {}, DOMAIN word, {1}, {2, Len(word)} } }

UnknownKinds ==
    { << "b", "o", "g", "u", "s" >>, << "B", "o", "g", "u", "s" >>, << >>,
      << "l", "i", "n", "e", "a" >>, << "L", "I", "N", "E", "A", "R", " " >> }

Kinds == SomeCasings(LinearKey) \cup SomeCasings(ExponentialKey) \cup UnknownKinds

TVals == { NaN, Neg1, 0, Lit(10, 1), Lit(50, 1), PosInf }
SVals == { NaN, Neg1, 0, Lit(1, 2), Lit(10, 1), Lit(50, 1) }
AVals == { NaN, Neg1, 0, MinPos, Lit(1, 2), Lit(4, 5), Lit(1, 1), Lit(2, 1) }
BVals == { NaN, 0, MinPos, Lit(1, 1), Lit(4, 1), PosInf }
Weeks == { NaN, Neg1, 0, Lit(4, 1), Lit(8, 1), Lit(12, 1), PosInf }
\* Further weeks asked of a LinearModel (the arithmetic modelled here has no
\* fractional powers, so an ExponentialModel is asked the weeks above only).
LinearWeeks ==
    { Lit(1, 1), Lit(2, 1), Lit(5, 1), Lit(10, 1), Lit(20, 1), Lit(25, 1), Lit(30, 1),
      Lit(40, 1), Lit(49, 1) }
WeeksFor(m) == IF m.class = "LinearModel" THEN Weeks \cup LinearWeeks ELSE Weeks

Mileages ==
    { NaN, 0, Lit(5, 1), Lit(10, 1), Lit(18, 1), Lit(30, 1), Lit(49, 1), Lit(50, 1), Lit(60, 1) }

\* Requests the week-calculation schema admits: target > 0, starting >= 0,
\* b > 0 and weekly_mileage >= 0 when present, a unconstrained.
WeekRequests ==
    [target_mileage : { None, Lit(10, 1) },
     starting_mileage : { None, 0, Lit(10, 1) },
     a_parameter : { None, 0, Lit(1, 2), Lit(2, 1) },
     b_parameter : { None, Lit(1, 1) },
     weekly_mileage : { 0, Lit(10, 1), Lit(30, 1), Lit(50, 1), Lit(60, 1) }]

\* Requests the other schemas admit; a = MinPos makes a linear rate a / b that
\* rounds to zero with the default b.
WeekNumberRequests ==
    [target_mileage : { None, Lit(10, 1) },
     starting_mileage : { None, 0, Lit(10, 1) },
     a_parameter : { None, 0, MinPos, Lit(1, 2), Lit(2, 1) },
     b_parameter : { None, Lit(1, 1) },
     week_number : { 0, Lit(4, 1), Lit(8, 1) }]

\* weeks_to_plot in 1..52; the plotted weeks 0, 1, 2 keep week / b whole only
\* for b = 1, so a longer plot always overrides b.
VisualisationRequests ==
    { r \in [target_mileage : { None, Lit(10, 1) },
              starting_mileage : { None, 0, Lit(10, 1) },
              a_parameter : { None, 0, MinPos, Lit(1, 2), Lit(2, 1) },
              b_parameter : { None, Lit(1, 1) },
              weeks_to_plot : { 1, 3 },
              include_rate : BOOLEAN] :
        r.weeks_to_plot = 1 \/ r.b_parameter # None }

\* Values a Settings object is constructed from (keyword arguments or the
\* environment).
SettingsBVals == { 0, Lit(4, 1) }

\* Settings() with its field defaults, for either equation choice.
DefaultSettings(choice) ==
    [target_mileage |-> Lit(50, 1), starting_mileage |-> Lit(10, 1),
     a_parameter |-> Lit(4, 5), b_parameter |-> Lit(4, 1), equation_choice |-> choice]
SettingsInUse == { DefaultSettings(ExponentialKey), DefaultSettings(LinearKey) }

\* ------------------------------------------------------------ state machine
\* One caller's session: it builds a model, through the factory or (as the
\* unit tests do) from a ModelParameters object, then calls its methods.

VARIABLES
    params,  \* the ModelParameters object the caller holds, or NoParams
    model,   \* the model object the caller holds, or NoModel
    built,   \* the model object as its constructor returned it
    failed,  \* whether a method call on the model has raised
    last     \* the latest call: operation, arguments, outcome

vars == << params, model, built, failed, last >>

NoParams == [target_mileage |-> None]
NoModel == [class |-> "none"]
NoCall == [op |-> "none"]

Call(op, kind, args, out) == [op |-> op, kind |-> kind, args |-> args, out |-> out]

Init ==
    /\ params = NoParams
    /\ model = NoModel
    /\ built = NoModel
    /\ failed = FALSE
    /\ last = NoCall

\* model = ModelFactory.create(kind, T, S, a, b)
Create(kind, T, S, a, b) ==
    LET out == ModelFactory_create(kind, T, S, a, b)
    IN  /\ model' = IF Returned(out) THEN out.val ELSE NoModel
        /\ built' = model'
        /\ last' = Call("create", kind, << T, S, a, b >>, out)
        /\ UNCHANGED << params, failed >>

\* params = ModelParameters(T, S, a, b)
NewParameters(T, S, a, b) ==
    LET out == ModelParameters(T, S, a, b)
    IN  /\ params' = IF Returned(out) THEN out.val ELSE NoParams
        /\ last' = Call("ModelParameters", << >>, << T, S, a, b >>, out)
        /\ UNCHANGED << model, built, failed >>

\* model = ExponentialModel(params) or LinearModel(params)
NewModel(class) ==
    /\ params # NoParams
    /\ model = NoModel
    /\ LET out == Construct(class, params)
       IN  /\ model' = IF Returned(out) THEN out.val ELSE NoModel
           /\ built' = model'
           /\ last' = Call(class, << >>, << params >>, out)
    /\ UNCHANGED << params, failed >>

\* A session is kept short: the caller calls a method on the model it has just
\* built, and calls again only after a call that raised (the instance stays
\* usable for a call with corrected input).
CanCall ==
    /\ model # NoModel
    /\ last.op \in {"create", "ExponentialModel", "LinearModel"} \/ Raised(last.out)

CalculateMileage(week) ==
    /\ CanCall
    /\ week \in WeeksFor(model)
    /\ LET out == calculate_mileage(model, week)
       IN  /\ last' = Call("calculate_mileage", << >>, << week >>, out)
           /\ failed' = (failed \/ Raised(out))
    /\ model' = AfterCall(model, "calculate_mileage", week)
    /\ UNCHANGED << params, built >>

CalculateWeek(mileage) ==
    /\ CanCall
    /\ LET out == calculate_week(model, mileage)
       IN  /\ last' = Call("calculate_week", << >>, << mileage >>, out)
           /\ failed' = (failed \/ Raised(out))
    /\ model' = AfterCall(model, "calculate_week", mileage)
    /\ UNCHANGED << params, built >>

CalculateRateOfChange(week) ==
    /\ CanCall
    /\ week \in WeeksFor(model)
    /\ LET out == calculate_rate_of_change(model, week)
       IN  /\ last' = Call("calculate_rate_of_change", << >>, << week >>, out)
           /\ failed' = (failed \/ Raised(out))
    /\ model' = AfterCall(model, "calculate_rate_of_change", week)
    /\ UNCHANGED << params, built >>

ModelType ==
    /\ CanCall
    /\ LET out == Ret(model_type(model))
       IN  /\ last' = Call("model_type", << >>, << >>, out)
           /\ failed' = (failed \/ Raised(out))
    /\ model' = AfterCall(model, "model_type", None)
    /\ UNCHANGED << params, built >>

GetEquationLatex ==
    /\ CanCall
    /\ LET out == Ret(get_equation_latex(model))
       IN  /\ last' = Call("get_equation_latex", << >>, << >>, out)
           /\ failed' = (failed \/ Raised(out))
    /\ model' = AfterCall(model, "get_equation_latex", None)
    /\ UNCHANGED << params, built >>

\* ModelFactory.available_models(), asked before or after a create call.
AvailableModels ==
    /\ last.op \in {"none", "create"}
    /\ last' = Call("available_models", << >>, << >>, Ret(ModelFactory_available_models))
    /\ UNCHANGED << params, model, built, failed >>

\* A POST /api/v1/calculate-week request served by a fresh handler call.
PostCalculateWeek(request, settings) ==
    /\ last' = Call("POST /calculate-week", << >>, << request, settings >>,
                    calculate_week_handler(request, settings))
    /\ UNCHANGED << params, model, built, failed >>

\* settings = Settings(...)
NewSettings(T, S, a, b, choice) ==
    /\ last' = Call("Settings", choice, << T, S, a, b >>, Settings(T, S, a, b, choice))
    /\ UNCHANGED << params, model, built, failed >>

\* ParameterValidator.validate_mileage_range(starting, target, model_type)
ValidateMileageRange(starting, target, tag) ==
    /\ last' = Call("validate_mileage_range", tag, << starting, target >>,
                    validate_mileage_range(starting, target, tag))
    /\ UNCHANGED << params, model, built, failed >>

\* ParameterValidator.validate_model_parameters(a_param, b_param, model_type)
ValidateModelParameters(a_param, b_param, tag) ==
    /\ last' = Call("validate_model_parameters", tag, << a_param, b_param >>,
                    validate_model_parameters(a_param, b_param, tag))
    /\ UNCHANGED << params, model, built, failed >>

PostCalculateMileage(request, settings) ==
    /\ last' = Call("POST /calculate-mileage", << >>, << request, settings >>,
                    calculate_mileage_handler(request, settings))
    /\ UNCHANGED << params, model, built, failed >>

PostRateOfChange(request, settings) ==
    /\ last' = Call("POST /rate-of-change", << >>, << request, settings >>,
                    calculate_rate_handler(request, settings))
    /\ UNCHANGED << params, model, built, failed >>

PostVisualise(request, settings) ==
    /\ last' = Call("POST /visualise", << >>, << request, settings >>,
                    get_visualisation_data(request, settings))
    /\ UNCHANGED << params, model, built, failed >>

\* The plateau helper of a LinearModel, called directly as the unit tests do.
GetPlateauWeek ==
    /\ CanCall
    /\ model.class = "LinearModel"
    /\ LET out == Linear_get_plateau_week(model.params)
       IN  /\ last' = Call("_get_plateau_week", << >>, << >>, out)
           /\ failed' = (failed \/ Raised(out))
    /\ model' = AfterCall(model, "_get_plateau_week", None)
    /\ UNCHANGED << params, built >>

Next ==
    \/ /\ last = NoCall
       /\ \E kind \in Kinds, T \in TVals, S \in SVals, a \in AVals, b \in BVals :
             Create(kind, T, S, a, b)
    \/ /\ last = NoCall
       /\ \E T \in TVals, S \in SVals, a \in AVals, b \in BVals : NewParameters(T, S, a, b)
    \/ /\ last = NoCall
       /\ \E T \in TVals, S \in SVals, b \in SettingsBVals, choice \in Kinds :
             NewSettings(T, S, Lit(4, 5), b, choice)
    \/ /\ last = NoCall
       /\ \E starting \in SVals, target \in TVals, tag \in Kinds :
             ValidateMileageRange(starting, target, tag)
    \/ /\ last = NoCall
       /\ \E a_param \in AVals, b_param \in BVals, tag \in Kinds :
             ValidateModelParameters(a_param, b_param, tag)
    \/ /\ last = NoCall
       /\ \E request \in WeekRequests, settings \in SettingsInUse :
             PostCalculateWeek(request, settings)
    \/ /\ last = NoCall
       /\ \E request \in WeekNumberRequests, settings \in SettingsInUse :
             PostCalculateMileage(request, settings)
    \/ /\ last = NoCall
       /\ \E request \in WeekNumberRequests, settings \in SettingsInUse :
             PostRateOfChange(request, settings)
    \/ /\ last = NoCall
       /\ \E request \in VisualisationRequests, settings \in SettingsInUse :
             PostVisualise(request, settings)
    \/ \E class \in {"ExponentialModel", "LinearModel"} : NewModel(class)
    \/ \E week \in Weeks \cup LinearWeeks : CalculateMileage(week)
    \/ \E mileage \in Mileages : CalculateWeek(mileage)
    \/ \E week \in Weeks \cup LinearWeeks : CalculateRateOfChange(week)
    \/ ModelType
    \/ GetEquationLatex
    \/ GetPlateauWeek
    \/ AvailableModels

Spec == Init /\ [][Next]_vars

\* ------------------------------------------------------------ claims
\* Order on float values as the claims mean it: false when an operand is NaN.
IsLt(x, y) == x # NaN /\ y # NaN /\ x < y
IsLe(x, y) == x # NaN /\ y # NaN /\ x <= y

RegisteredTags == { ExponentialKey, LinearKey }
IsCasingOf(k, r) == Len(k) = Len(r) /\ \A i \in DOMAIN r : k[i] \in { r[i], UpperChar(r[i]) }
IsRegisteredCasing(k) == \E r \in RegisteredTags : IsCasingOf(k, r)
TagOf(k) == CHOOSE r \in RegisteredTags : IsCasingOf(k, r)

CheckedCasings(r) == IF r = LinearKey THEN AllCasings(r) ELSE SomeCasings(r)

SameOutcome(o1, o2) ==
    /\ o1.kind = o2.kind
    /\ IF Returned(o1) THEN o1.val = o2.val
       ELSE o1.exc = o2.exc /\ o1.text = o2.text /\ o1.got = o2.got

Created == last.op = "create"

\* C1: ModelFactory.create matches the tag case-insensitively: with the call's
\* parameters, every casing of a registered tag gives the outcome the lowercase
\* tag gives, and so did the call; a tag that is no casing of a registered tag
\* fails with the unknown-type error, which carries the tag as supplied and the
\* list of valid tags.
C1_CaseInsensitive ==
    Created =>
        LET k == last.kind
            T == last.args[1]
            S == last.args[2]
            a == last.args[3]
            b == last.args[4]
        IN  /\ k \in RegisteredTags =>
                  \A c \in CheckedCasings(k) :
                      SameOutcome(ModelFactory_create(c, T, S, a, b), last.out)
            /\ IsRegisteredCasing(k) =>
                  SameOutcome(last.out, ModelFactory_create(TagOf(k), T, S, a, b))
            /\ IsRegisteredCasing(k) /\ Raised(last.out) => last.out.text # "Unknown model type"
            /\ ~IsRegisteredCasing(k) =>
                  /\ Raised(last.out)
                  /\ last.out.exc = "ValueError"
                  /\ last.out.text = "Unknown model type"
                  /\ last.out.got.tag = k
                  /\ last.out.got.available = << ExponentialKey, LinearKey >>

C1_Witness ==
    /\ Created
    /\ IsCasingOf(last.kind, LinearKey)
    /\ last.kind # LinearKey
    /\ Returned(last.out)

VariantInvariants(class, p) ==
    IF class = "ExponentialModel"
    THEN /\ IsLt(0, p.a_parameter) /\ IsLt(p.a_parameter, Unit)
         /\ IsLt(0, p.b_parameter)
         /\ IsLt(p.starting_mileage, p.target_mileage)
    ELSE /\ IsLt(0, p.a_parameter)
         /\ IsLt(0, p.b_parameter)
         /\ IsLe(p.starting_mileage, p.target_mileage)

\* C2: ModelFactory.create either raises and leaves no model, or returns a model
\* whose model_type is the lowercased kind, whose parameters are the four
\* arguments and which satisfies target > 0, starting >= 0 and its variant's
\* invariants; and it succeeds exactly when constructing that variant directly
\* from the same parameters succeeds.
C2_AllOrNothing ==
    Created =>
        LET o == last.out
            p == Params(last.args[1], last.args[2], last.args[3], last.args[4])
            direct == ModelParameters(last.args[1], last.args[2], last.args[3], last.args[4])
        IN  /\ \/ Raised(o) /\ model = NoModel
               \/ /\ Returned(o)
                  /\ model = o.val
                  /\ IsRegisteredCasing(last.kind)
                  /\ model_type(model) = TagOf(last.kind)
                  /\ model.params = p
                  /\ IsLt(0, p.target_mileage)
                  /\ IsLe(0, p.starting_mileage)
                  /\ VariantInvariants(model.class, p)
            /\ IsRegisteredCasing(last.kind) =>
                  (Returned(o) <=>
                      /\ Returned(direct)
                      /\ Returned(Construct(ModelClass(TagOf(last.kind)), direct.val)))

\* C3: ModelParameters(target, starting, a, b) raises the invalid-parameter error
\* exactly when target <= 0 or starting < 0; a and b are not looked at, so the
\* object is built with any a and b once target > 0 and starting >= 0.
C3_ParameterSet ==
    last.op = "ModelParameters" =>
        LET T == last.args[1]
            S == last.args[2]
        IN  /\ Raised(last.out) <=> (IsLe(T, 0) \/ IsLt(S, 0))
            /\ Raised(last.out) => last.out.exc = "ValueError" /\ params = NoParams
            /\ IsLt(0, T) /\ IsLe(0, S) =>
                  /\ Returned(last.out)
                  /\ params = Params(T, S, last.args[3], last.args[4])

C3_Witness ==
    /\ last.op = "ModelParameters"
    /\ Returned(last.out)
    /\ params.starting_mileage = 0
    /\ IsLt(params.a_parameter, 0)
    /\ params.b_parameter = 0

\* A parameter set with target > 0 and starting >= 0.
ValidParameterSet(p) ==
    IsLt(0, p.target_mileage) /\ IsLe(0, p.starting_mileage)

FiniteParams(p) ==
    /\ IsFinite(p.target_mileage) /\ IsFinite(p.starting_mileage)
    /\ IsFinite(p.a_parameter) /\ IsFinite(p.b_parameter)

\* C4: ExponentialModel(params) succeeds exactly when 0 < a < 1, b > 0 and
\* starting < target (starting == target, a = 0, a = 1, a > 1 and b = 0 are
\* all rejected with the invalid-parameter error).
C4_ExponentialValidation ==
    last.op = "ExponentialModel" /\ ValidParameterSet(last.args[1]) =>
        /\ Returned(last.out) <=> VariantInvariants("ExponentialModel", last.args[1])
        /\ Raised(last.out) => last.out.exc = "ValueError"

\* C5: LinearModel(params) succeeds exactly when a > 0, b > 0 and
\* starting <= target; a model with starting == target has plateau week 0.
C5_LinearValidation ==
    last.op = "LinearModel" /\ ValidParameterSet(last.args[1]) =>
        /\ Returned(last.out) <=> VariantInvariants("LinearModel", last.args[1])
        /\ Raised(last.out) => last.out.exc = "ValueError"
        /\ Returned(last.out) /\ model.params.starting_mileage = model.params.target_mileage
              => Linear_get_plateau_week(model.params) = Ret(0)

\* A model whose parameters are finite and satisfy every construction invariant.
ValidModel ==
    /\ model # NoModel
    /\ FiniteParams(model.params)
    /\ IsLt(0, model.params.target_mileage)
    /\ IsLe(0, model.params.starting_mileage)
    /\ VariantInvariants(model.class, model.params)

\* C6: on a valid model of either variant, calculate_mileage(week) and
\* calculate_rate_of_change(week) raise the invalid-input error exactly when
\* week < 0, and return a number for every week >= 0.
C6_WeekValidation ==
    ValidModel /\ last.op \in {"calculate_mileage", "calculate_rate_of_change"} =>
        LET week == last.args[1]
        IN  /\ Raised(last.out) <=> IsLt(week, 0)
            /\ Raised(last.out) => last.out.exc = "ValueError"
            /\ IsLe(0, week) => Returned(last.out)

MethodOps ==
    {"calculate_mileage", "calculate_week", "calculate_rate_of_change",
     "model_type", "get_equation_latex"}

\* What a call gives on a model object m.
OutcomeOn(m, op, args) ==
    IF op = "calculate_mileage" THEN calculate_mileage(m, args[1])
    ELSE IF op = "calculate_week" THEN calculate_week(m, args[1])
    ELSE IF op = "calculate_rate_of_change" THEN calculate_rate_of_change(m, args[1])
    ELSE IF op = "model_type" THEN Ret(model_type(m))
    ELSE Ret(get_equation_latex(m))

ExpMileageCall ==
    /\ model # NoModel
    /\ model.class = "ExponentialModel"
    /\ FiniteParams(model.params)
    /\ last.op = "calculate_mileage"
    /\ Returned(last.out)

\* C8 as stated: on a valid ExponentialModel calculate_mileage(0) is exactly
\* the starting mileage.
C8_ExactStart ==
    ExpMileageCall /\ last.args[1] = 0 => last.out.val = model.params.starting_mileage

\* C8 as amended: calculate_mileage(0) is T - (T - S) in float arithmetic: it
\* is within one unit in the last place of the target of the starting mileage,
\* and is the starting mileage exactly when T - S is exactly representable.
C8_StartWithinRounding ==
    ExpMileageCall /\ last.args[1] = 0 =>
        LET T == model.params.target_mileage
            S == model.params.starting_mileage
        IN  /\ Abs(last.out.val - S) <= Ulp(T)
            /\ Representable(T - S) => last.out.val = S

C8_Witness ==
    /\ ExpMileageCall
    /\ last.args[1] = 0
    /\ ~Representable(model.params.target_mileage - model.params.starting_mileage)
    /\ last.out.val # model.params.starting_mileage

\* C9 as stated: on a valid ExponentialModel, for weeks 0 <= w1 < w2 (w2 finite)
\* calculate_mileage(w1) < calculate_mileage(w2) < target.
C9_StrictlyIncreasingBelowTarget ==
    ExpMileageCall /\ IsFinite(last.args[1]) =>
        \A w1 \in Weeks :
            IsLe(0, w1) /\ IsLt(w1, last.args[1]) =>
                /\ IsLt(calculate_mileage(model, w1).val, last.out.val)
                /\ IsLt(last.out.val, model.params.target_mileage)

\* C9 as amended: for weeks 0 <= w1 < w2,
\* calculate_mileage(w1) <= calculate_mileage(w2) <= target.
C9_NondecreasingUpToTarget ==
    ExpMileageCall =>
        \A w1 \in Weeks :
            IsLe(0, w1) /\ IsLt(w1, last.args[1]) =>
                /\ IsLe(calculate_mileage(model, w1).val, last.out.val)
                /\ IsLe(last.out.val, model.params.target_mileage)

\* The rounded result has reached the target at a finite week.
C9_Witness ==
    /\ ExpMileageCall
    /\ IsLt(0, last.args[1])
    /\ IsFinite(last.args[1])
    /\ model.params.b_parameter = Unit
    /\ last.out.val = model.params.target_mileage

IsNumber(v) == v # None /\ ~IsNaN(v)

\* Two floats within 1e-6 of each other. The floats of this model are whole
\* multiples of 2^-FracBits, which is more than 1e-6, so they must be equal.
Within1e6(x, y) == IsNumber(x) /\ IsNumber(y) /\ x = y

\* The inverse applied to the mileage the latest call returned.
WeekOfLastMileage == calculate_week(model, last.out.val)

TestExponential ==
    [class |-> "ExponentialModel",
     params |-> Params(Lit(50, 1), Lit(10, 1), Lit(4, 5), Lit(4, 1))]

ExpWeekCall ==
    /\ ValidModel
    /\ model.class = "ExponentialModel"
    /\ last.op = "calculate_week"

\* C12 as stated: on a valid ExponentialModel calculate_week(mileage) never
\* raises; it gives 'no solution' iff mileage < starting or mileage > target,
\* the 'unbounded' marker iff mileage == target, and for
\* starting <= mileage < target a finite week >= 0 (0 at mileage == starting).
C12_ThreeOutcomes ==
    ExpWeekCall =>
        LET S == model.params.starting_mileage
            T == model.params.target_mileage
            mileage == last.args[1]
            val == last.out.val
        IN  /\ Returned(last.out)
            /\ val = None <=> (IsLt(mileage, S) \/ IsLt(T, mileage))
            /\ val = PosInf <=> FEq(mileage, T)
            /\ IsLe(S, mileage) /\ IsLt(mileage, T) =>
                  /\ IsNumber(val) /\ IsFinite(val) /\ IsLe(0, val)
                  /\ mileage = S => val = 0

\* C12 as amended: calculate_week(mileage) never raises; it gives 'no solution'
\* iff starting <= mileage <= target does not hold (a NaN mileage included),
\* +infinity when mileage == target, and for starting <= mileage < target a
\* number >= 0 (0 at mileage == starting) that is finite unless the quotient
\* b * ln(ratio) / ln(a) overflows, in which case it is +infinity as well.
C12_InverseOutcomes ==
    ExpWeekCall =>
        LET S == model.params.starting_mileage
            T == model.params.target_mileage
            mileage == last.args[1]
            val == last.out.val
        IN  /\ Returned(last.out)
            /\ val = None <=> ~(IsLe(S, mileage) /\ IsLe(mileage, T))
            /\ FEq(mileage, T) => val = PosInf
            /\ IsLe(S, mileage) /\ IsLt(mileage, T) =>
                  /\ IsNumber(val) /\ IsLe(0, val)
                  /\ mileage = S => val = 0
                  /\ IsFinite(FDiv(FMul(model.params.b_parameter,
                                        FLog(FDiv(FSub(T, mileage), FSub(T, S)))),
                                   FLog(model.params.a_parameter))) => IsFinite(val)

\* A mileage below the target whose week overflows to +infinity.
C12_Witness ==
    /\ ExpWeekCall
    /\ IsLt(last.args[1], model.params.target_mileage)
    /\ Returned(last.out)
    /\ last.out.val = PosInf

ExpRateCall ==
    /\ ValidModel
    /\ model.class = "ExponentialModel"
    /\ last.op = "calculate_rate_of_change"
    /\ IsLe(0, last.args[1])

\* C13 as stated: on a valid ExponentialModel the rate of change is strictly
\* positive at every week >= 0 and strictly decreasing: rate(w1) > rate(w2) > 0
\* for 0 <= w1 < w2.
C13_StrictlyDecreasingPositive ==
    ExpRateCall =>
        /\ Returned(last.out)
        /\ IsLt(0, last.out.val)
        /\ \A w1 \in Weeks :
              IsLe(0, w1) /\ IsLt(w1, last.args[1]) =>
                  IsLt(last.out.val, calculate_rate_of_change(model, w1).val)

\* C13 as amended: when (T - S) / b does not overflow, the rate of change is
\* never negative and never increases: rate(w1) >= rate(w2) >= 0 for
\* 0 <= w1 < w2.
C13_NonincreasingNonnegative ==
    ExpRateCall /\ IsFinite(FDiv(FSub(model.params.target_mileage,
                                      model.params.starting_mileage),
                                 model.params.b_parameter)) =>
        /\ Returned(last.out)
        /\ IsLe(0, last.out.val)
        /\ \A w1 \in Weeks :
              IsLe(0, w1) /\ IsLt(w1, last.args[1]) =>
                  IsLe(last.out.val, calculate_rate_of_change(model, w1).val)

\* The rate has underflowed to zero at a finite week.
C13_Witness ==
    /\ ExpRateCall
    /\ IsFinite(last.args[1])
    /\ IsFinite(FDiv(FSub(model.params.target_mileage, model.params.starting_mileage),
                     model.params.b_parameter))
    /\ Returned(last.out)
    /\ last.out.val = 0
    /\ IsLt(0, calculate_rate_of_change(model, 0).val)

TestLinear ==
    [class |-> "LinearModel",
     params |-> Params(Lit(50, 1), Lit(10, 1), Lit(2, 1), Lit(1, 1))]

\* The slope a / b of a linear model, as the code computes it.
RateOf(m) == FDiv(m.params.a_parameter, m.params.b_parameter)

LinMileageCall ==
    /\ ValidModel
    /\ model.class = "LinearModel"
    /\ last.op = "calculate_mileage"
    /\ IsLe(0, last.args[1])

\* The concrete values of Linear(50, 10, 2, 1) at weeks 0, 1, 2, 30, 40.
LinearTable ==
    (Lit(0, 1) :> Lit(10, 1)) @@ (Lit(1, 1) :> Lit(12, 1)) @@ (Lit(2, 1) :> Lit(14, 1))
        @@ (Lit(30, 1) :> Lit(50, 1)) @@ (Lit(40, 1) :> Lit(50, 1))

\* C14 as stated: on a valid LinearModel, for every week >= 0,
\* calculate_mileage(week) is min(S + (a/b) * week, T): S at week 0, rising by
\* exactly a/b per week before the plateau, never above T, never decreasing;
\* Linear(50, 10, 2, 1) gives 10, 12, 14, 50, 50 at weeks 0, 1, 2, 30, 40.
C14_PiecewiseLinearExact ==
    /\ LinMileageCall =>
          LET S == model.params.starting_mileage
              T == model.params.target_mileage
              week == last.args[1]
          IN  /\ Returned(last.out)
              /\ last.out.val = PyMin(FAdd(S, FMul(RateOf(model), week)), T)
              /\ week = 0 => last.out.val = S
              /\ IsLe(last.out.val, T)
              /\ \A w1 \in WeeksFor(model) :
                    IsLe(0, w1) /\ IsLt(w1, week) =>
                        /\ IsLe(calculate_mileage(model, w1).val, last.out.val)
                        /\ IsFinite(week) /\ IsLt(last.out.val, T) =>
                              FSub(last.out.val, calculate_mileage(model, w1).val)
                                  = FMul(RateOf(model), FSub(week, w1))
    /\ model = TestLinear /\ last.op = "calculate_mileage"
                          /\ last.args[1] \in DOMAIN LinearTable =>
          last.out = Ret(LinearTable[last.args[1]])

\* C14 as amended: for every finite week >= 0, calculate_mileage(week) is
\* min(S + (a/b) * week, T) evaluated in float arithmetic; when a/b does not
\* overflow it is S at week 0, never above T and never decreasing in the week;
\* Linear(50, 10, 2, 1) gives 10, 12, 14, 50, 50 at weeks 0, 1, 2, 30, 40.
C14_PiecewiseLinear ==
    /\ LinMileageCall /\ IsFinite(last.args[1]) =>
          LET S == model.params.starting_mileage
              T == model.params.target_mileage
              week == last.args[1]
          IN  /\ Returned(last.out)
              /\ last.out.val = PyMin(FAdd(S, FMul(RateOf(model), week)), T)
              /\ IsFinite(RateOf(model)) =>
                    /\ week = 0 => last.out.val = S
                    /\ IsLe(last.out.val, T)
                    /\ \A w1 \in WeeksFor(model) :
                          IsLe(0, w1) /\ IsLt(w1, week) =>
                              IsLe(calculate_mileage(model, w1).val, last.out.val)
    /\ model = TestLinear /\ last.op = "calculate_mileage"
                          /\ last.args[1] \in DOMAIN LinearTable =>
          last.out = Ret(LinearTable[last.args[1]])

\* Linear(50, 10, 2, 1) asked past its plateau.
C14_Witness ==
    /\ model = TestLinear
    /\ last.op = "calculate_mileage"
    /\ last.args = << Lit(30, 1) >>
    /\ last.out = Ret(Lit(50, 1))

\* The plateau week (T - S) / (a / b) of a linear model, 0 when S == T.
PlateauOf(m) ==
    IF m.params.starting_mileage = m.params.target_mileage THEN 0
    ELSE FDiv(FSub(m.params.target_mileage, m.params.starting_mileage), RateOf(m))

LinWeekCall ==
    /\ ValidModel
    /\ model.class = "LinearModel"
    /\ last.op = "calculate_week"
    /\ IsFinite(last.args[1])

\* C15: on a valid LinearModel calculate_week(mileage) gives 'no solution' iff
\* mileage < starting or mileage > target; for starting <= mileage <= target it
\* returns the numeric week (mileage - S) / (a/b), exactly 0 at mileage == S
\* and exactly the plateau week at mileage == T; it never returns the
\* 'unbounded' marker.
C15_LinearInverse ==
    LinWeekCall =>
        LET S == model.params.starting_mileage
            T == model.params.target_mileage
            mileage == last.args[1]
        IN  /\ Returned(last.out)
            /\ last.out.val = None <=> (IsLt(mileage, S) \/ IsLt(T, mileage))
            /\ last.out.val # PosInf
            /\ IsLe(S, mileage) /\ IsLe(mileage, T) =>
                  /\ IsNumber(last.out.val)
                  /\ mileage = S => last.out.val = 0
                  /\ mileage # S => last.out.val = FDiv(FSub(mileage, S), RateOf(model))
                  /\ mileage = T => last.out.val = PlateauOf(model)

LinRateCall ==
    /\ ValidModel
    /\ model.class = "LinearModel"
    /\ last.op = "calculate_rate_of_change"
    /\ IsLe(0, last.args[1])

\* C16: on a valid LinearModel, for week >= 0, calculate_rate_of_change(week)
\* returns a/b when week is strictly before the plateau week and exactly 0
\* when week is at or after it; Linear(50, 10, 2, 1) gives 2.0 at weeks 5 and
\* 10 and 0.0 at week 25.
C16_LinearRate ==
    /\ LinRateCall =>
          /\ Returned(last.out)
          /\ IsLt(last.args[1], PlateauOf(model)) => last.out.val = RateOf(model)
          /\ IsLe(PlateauOf(model), last.args[1]) => last.out.val = 0
    /\ model = TestLinear /\ last.op = "calculate_rate_of_change" =>
          /\ last.args[1] \in { Lit(5, 1), Lit(10, 1) } => last.out = Ret(Lit(2, 1))
          /\ last.args[1] = Lit(25, 1) => last.out = Ret(0)

PlateauCall ==
    /\ ValidModel
    /\ model.class = "LinearModel"
    /\ RateOf(model) # 0 /\ IsFinite(RateOf(model))
    /\ last.op = "_get_plateau_week"

\* The finite weeks >= 0 a linear model is asked.
FiniteWeeks(m) == { w \in WeeksFor(m) : IsFinite(w) /\ IsLe(0, w) }

C18_AvailableModels ==
    /\ last.op = "available_models" =>
          last.out = Ret(<< ExponentialKey, LinearKey >>)
    /\ last.op = "create" =>
          ((Raised(last.out) /\ last.out.text = "Unknown model type")
              <=> ~(\E i \in DOMAIN ModelFactory_available_models :
                        ModelFactory_available_models[i] = Lower(last.kind)))

\* The list asked after a create call that returned a model.
C18_Witness ==
    /\ last.op = "available_models"
    /\ model # NoModel
    /\ Len(last.out.val) = 2

WeekRequestServed == last.op = "POST /calculate-week"

\* The model the handler builds for the latest request, and its inverse result.
ModelServed ==
    LET p == get_model_params(last.args[1], last.args[2])
    IN  ModelFactory_create(p.model_type, p.target_mileage, p.starting_mileage,
                            p.a_parameter, p.b_parameter)
WeekServed == calculate_week(ModelServed.val, last.args[1].weekly_mileage)

\* C19: the calculate-week handler answers the inverse's 'no solution' and
\* 'unbounded' outcomes with a success response, never an error, and keeps the
\* three outcomes apart: 'no solution' gives is_achievable false, no week_number
\* and the out-of-range message; 'unbounded' gives is_achievable true, no
\* week_number and the asymptotic message; a number gives is_achievable true,
\* week_number set and no message.
C19_WeekOutcomes ==
    WeekRequestServed /\ Returned(ModelServed) /\ Returned(WeekServed) =>
        /\ Returned(last.out)
        /\ WeekServed.val = None =>
              /\ last.out.val.is_achievable = FALSE
              /\ last.out.val.week_number = None
              /\ last.out.val.message = OutsideRangeMessage
        /\ WeekServed.val = PosInf =>
              /\ last.out.val.is_achievable = TRUE
              /\ last.out.val.week_number = None
              /\ last.out.val.message = AsymptoticMessage
        /\ WeekServed.val \notin { None, PosInf } =>
              /\ last.out.val.is_achievable = TRUE
              /\ last.out.val.week_number = Round(WeekServed.val, 2)
              /\ last.out.val.week_number # None
              /\ last.out.val.message = NoMessage

\* A request for the target of an exponential model, answered as unbounded.
C19_Witness ==
    /\ WeekRequestServed
    /\ Returned(last.out)
    /\ last.out.val.is_achievable = TRUE
    /\ last.out.val.week_number = None
    /\ last.out.val.message = AsymptoticMessage

\* C20: the handler builds the model from the request's value for each of
\* target, starting, a and b whenever the request supplies the field (0
\* included), from the configured default only when the field is missing, and
\* echoes in the response the parameters the model was built from.
C20_DefaultFallback ==
    WeekRequestServed =>
        LET request == last.args[1]
            settings == last.args[2]
            p == get_model_params(request, settings)
            Resolved(given, default) == IF given = None THEN default ELSE given
        IN  /\ p.target_mileage = Resolved(request.target_mileage, settings.target_mileage)
            /\ p.starting_mileage
                  = Resolved(request.starting_mileage, settings.starting_mileage)
            /\ p.a_parameter = Resolved(request.a_parameter, settings.a_parameter)
            /\ p.b_parameter = Resolved(request.b_parameter, settings.b_parameter)
            /\ Returned(last.out) =>
                  /\ last.out.val.parameters = p
                  /\ ModelServed.val.params
                        = Params(p.target_mileage, p.starting_mileage,
                                 p.a_parameter, p.b_parameter)

HandlerOps ==
    { "POST /calculate-mileage", "POST /calculate-week", "POST /rate-of-change",
      "POST /visualise" }
RequestServed == last.op \in HandlerOps

\* The engine calls a handler makes for the latest request, in order: the
\* factory call, then every evaluation of the model it returned.
EngineCalls ==
    LET request == last.args[1]
        p == get_model_params(request, last.args[2])
        created == ModelFactory_create(p.model_type, p.target_mileage, p.starting_mileage,
                                       p.a_parameter, p.b_parameter)
        m == created.val
        weeks == WeeksToPlot(request.weeks_to_plot)
    IN  IF Raised(created) THEN << created >>
        ELSE << created >> \o
             CASE last.op = "POST /calculate-mileage" ->
                    << calculate_mileage(m, request.week_number) >>
               [] last.op = "POST /calculate-week" ->
                    << calculate_week(m, request.weekly_mileage) >>
               [] last.op = "POST /rate-of-change" ->
                    << calculate_rate_of_change(m, request.week_number) >>
               [] last.op = "POST /visualise" ->
                    [i \in DOMAIN weeks |-> calculate_mileage(m, weeks[i])]
                    \o (IF request.include_rate
                        THEN [i \in DOMAIN weeks |-> calculate_rate_of_change(m, weeks[i])]
                        ELSE << >>)
                    \o << PlateauWeekOf(m) >>

\* C21: in each of the four handlers an engine error (a ValueError of the
\* factory, of construction or of an evaluation) becomes a failure response
\* with status 400 carrying the error's message, and a success payload is
\* produced only when the factory call and every evaluation returned.
C21_ErrorsTranslated ==
    RequestServed =>
        /\ AnyRaised(EngineCalls) /\ FirstRaised(EngineCalls).exc = "ValueError" =>
              /\ Raised(last.out)
              /\ last.out.exc = "HTTPException"
              /\ last.out.got = 400
              /\ last.out.text = FirstRaised(EngineCalls).text
        /\ Returned(last.out) => ~AnyRaised(EngineCalls)

\* A visualise request whose overrides the exponential model rejects.
C21_Witness ==
    /\ last.op = "POST /visualise"
    /\ AnyRaised(EngineCalls)
    /\ FirstRaised(EngineCalls).exc = "ValueError"
    /\ Raised(last.out)
    /\ last.out.exc = "HTTPException"

\* The checks in the order claimed, each as << violated, message >>; the
\* variant's checks are listed only for a tag that names a variant.
ChecksInOrder(k, T, S, a, b) ==
    << << ~IsRegisteredCasing(k), "Unknown model type" >>,
       << IsLe(T, 0), "Target mileage must be positive" >>,
       << IsLt(S, 0), "Starting mileage must be non-negative" >> >>
    \o (IF ~IsRegisteredCasing(k) THEN << >>
        ELSE IF TagOf(k) = ExponentialKey
        THEN << << ~(IsLt(0, a) /\ IsLt(a, Unit)), "Parameter 'a' must be in (0, 1)" >>,
                << IsLe(b, 0), "Parameter 'b' must be positive" >>,
                << IsLe(T, S),
                   "Starting mileage must be less than target mileage for exponential model" >> >>
        ELSE << << IsLe(a, 0), "Parameter 'a' must be positive for linear model" >>,
                << IsLe(b, 0), "Parameter 'b' must be positive" >>,
                << IsLt(T, S), "Starting mileage cannot exceed target mileage" >> >>)

Violated(checks) == { i \in DOMAIN checks : checks[i][1] }
FirstViolated(checks) ==
    CHOOSE i \in Violated(checks) : \A j \in Violated(checks) : i <= j

\* C22: ModelFactory.create checks in a fixed order and reports the first
\* violation only: the tag first, then target <= 0, then starting < 0, then the
\* variant's checks of a, of b and of the starting/target relation.  The call
\* fails exactly when some check is violated, with the message of the first
\* violated check in that order.
C22_FirstViolationOnly ==
    Created =>
        LET checks == ChecksInOrder(last.kind, last.args[1], last.args[2],
                                    last.args[3], last.args[4])
        IN  /\ Raised(last.out) <=> Violated(checks) # {}
            /\ Raised(last.out) =>
                  /\ last.out.exc = "ValueError"
                  /\ last.out.text = checks[FirstViolated(checks)][2]

\* An unknown tag together with a non-positive target and a negative start:
\* three violations, of which the unknown tag is reported.
C22_Witness ==
    /\ Created
    /\ ~IsRegisteredCasing(last.kind)
    /\ IsLe(last.args[1], 0)
    /\ IsLt(last.args[2], 0)
    /\ Raised(last.out)
    /\ last.out.text = "Unknown model type"

\* C23: on a valid LinearModel the forward and inverse calculations are
\* mutually consistent: calculate_mileage(calculate_week(m)) == m for every
\* mileage m with starting <= m <= target, and
\* calculate_week(calculate_mileage(w)) == min(w, plateau week) for every
\* week w >= 0.
C23_LinearRoundTrips ==
    /\ LinWeekCall /\ IsLe(model.params.starting_mileage, last.args[1])
                   /\ IsLe(last.args[1], model.params.target_mileage) =>
          /\ Returned(last.out)
          /\ IsNumber(last.out.val)
          /\ calculate_mileage(model, last.out.val) = Ret(last.args[1])
    /\ LinMileageCall =>
          /\ Returned(last.out)
          /\ Returned(Linear_get_plateau_week(model.params))
          /\ calculate_week(model, last.out.val)
                = Ret(PyMin(last.args[1], Linear_get_plateau_week(model.params).val))

\* C24: on a valid LinearModel, for every week >= 0, the rate of change and
\* the mileage agree about the plateau: calculate_rate_of_change(week) == 0 if
\* and only if calculate_mileage(week) == target, and otherwise the rate is
\* a/b; a model with starting == target has rate 0 and mileage target at every
\* week.
C24_RateAgreesWithMileage ==
    LinRateCall =>
        LET week == last.args[1]
            T == model.params.target_mileage
            mileage == calculate_mileage(model, week)
        IN  /\ Returned(last.out)
            /\ Returned(mileage)
            /\ last.out.val = 0 <=> mileage.val = T
            /\ last.out.val # 0 => last.out.val = RateOf(model)
            /\ model.params.starting_mileage = T => last.out.val = 0 /\ mileage.val = T

\* Both pre-flight checks pass for the arguments of a factory call.
PreflightPasses(tag, T, S, a, b) ==
    /\ Returned(validate_mileage_range(S, T, tag))
    /\ Returned(validate_model_parameters(a, b, tag))

\* C25: for each lowercase tag in {exponential, linear} and every (target,
\* starting, a, b), validate_mileage_range(starting, target, tag) and
\* validate_model_parameters(a, b, tag) both pass if and only if
\* ModelFactory.create(tag, target, starting, a, b) succeeds; so a check that
\* fails for such a tag rules out every factory call with its arguments.
C25_ValidatorsAgreeWithFactory ==
    /\ Created /\ last.kind \in RegisteredTags =>
          (Returned(last.out)
              <=> PreflightPasses(last.kind, last.args[1], last.args[2],
                                  last.args[3], last.args[4]))
    /\ last.op = "validate_mileage_range" /\ last.kind \in RegisteredTags
          /\ Raised(last.out) =>
          \A a \in AVals, b \in BVals :
              Raised(ModelFactory_create(last.kind, last.args[2], last.args[1], a, b))
    /\ last.op = "validate_model_parameters" /\ last.kind \in RegisteredTags
          /\ Raised(last.out) =>
          \A T \in TVals, S \in SVals :
              Raised(ModelFactory_create(last.kind, T, S, last.args[1], last.args[2]))

\* An exponential factory call with starting == target, which the range check
\* rejects as well.
C25_Witness ==
    /\ Created
    /\ last.kind = ExponentialKey
    /\ IsLt(0, last.args[1])
    /\ last.args[2] = last.args[1]
    /\ Raised(last.out)
    /\ Raised(validate_mileage_range(last.args[2], last.args[1], last.kind))
    /\ Returned(validate_model_parameters(last.args[3], last.args[4], last.kind))

\* C26: for every tag string, in any letter case and registered or not,
\* whenever validate_mileage_range(starting, target, tag) and
\* validate_model_parameters(a, b, tag) both pass,
\* ModelFactory.create(tag, target, starting, a, b) succeeds.
C26_ValidatorsGateFactory ==
    Created /\ PreflightPasses(last.kind, last.args[1], last.args[2],
                               last.args[3], last.args[4])
        => Returned(last.out)

\* C27: for every successful visualise request the response's plateau_week is
\* present and equal to the model's plateau week rounded to 2 decimals whenever
\* the model is linear (a linear model with starting == target, whose plateau
\* week is 0, included), and absent whenever the model is exponential.
C27_PlateauWeekReported ==
    last.op = "POST /visualise" /\ Returned(last.out) =>
        LET m == ModelServed.val
        IN  IF m.class = "LinearModel"
            THEN /\ last.out.val.plateau_week # None
                 /\ last.out.val.plateau_week
                       = Round(Linear_get_plateau_week(m.params).val, 2)
            ELSE last.out.val.plateau_week = None

\* C28: constructing Settings with equation_choice 'exponential' (in any
\* letter case) and starting_mileage >= target_mileage fails with a validation
\* error, so every Settings object with the exponential choice has
\* starting_mileage < target_mileage.
C28_SettingsStartBelowTarget ==
    last.op = "Settings" /\ Lower(last.kind) = ExponentialKey =>
        /\ IsLe(last.args[1], last.args[2]) => Raised(last.out)
        /\ Returned(last.out) =>
              IsLt(last.out.val.starting_mileage, last.out.val.target_mileage)

====
